---- MODULE Spec2Model ----
(***************************************************************************)
(* end-porter: a local reverse proxy that maps endpoint prefixes to        *)
(* localhost ports (index.js), with an admin server that edits the map.    *)
(*                                                                         *)
(* Strings are sequences of one-character strings, so that trim,           *)
(* toLowerCase, startsWith, slice and the endpoint regular expression are  *)
(* computed character by character.  The routing table `mappings` is a     *)
(* sequence of [k, v] records in insertion order, which is the order       *)
(* Object.keys() reports for non-integer keys.                             *)
(*                                                                         *)
(* The repository holds two versions of the server: index.js, which        *)
(* canonicalizes endpoints inline, and a refactored one with               *)
(* canonicalizeEndpoint/isValidEndpoint helpers.  `build` says which one   *)
(* is running.                                                             *)
(*                                                                         *)
(* req, res, match, upstream and conn record the exchange being looked at  *)
(* and seen the table it read; task is the position of a rename that is    *)
(* run one assignment at a time; read is the admin read waiting for its    *)
(* liveness probes and listing the listing it sent.                        *)
(***************************************************************************)
EXTENDS Integers, Sequences, FiniteSets, TLC

VARIABLES build, mappings, file, req, res, match, upstream,
          conn, seen, task, read, listing

vars == <<build, mappings, file, req, res, match, upstream,
          conn, seen, task, read, listing>>

Builds == {"inline", "helpers"}

----------------------------------------------------------------------------
(* Characters and strings *)

Str(s) == [t |-> "string", s |-> s]
Num(s) == [t |-> "number", s |-> s]
Undefined == [t |-> "undefined", s |-> <<>>]

Whitespace == {" "}
LowerLetters == {"a", "g", "i", "u", "x"}
Digits == {"0", "1", "2", "3", "4", "5", "6", "7", "8", "9"}

lowerChar(c) ==
  CASE c = "A" -> "a"
    [] c = "G" -> "g"
    [] c = "I" -> "i"
    [] c = "U" -> "u"
    [] c = "X" -> "x"
    [] OTHER -> c

toLowerCase(s) == [i \in 1..Len(s) |-> lowerChar(s[i])]

RECURSIVE trimStart(_)
trimStart(s) ==
  IF s # <<>> /\ Head(s) \in Whitespace THEN trimStart(Tail(s)) ELSE s

RECURSIVE trimEnd(_)
trimEnd(s) ==
  IF s # <<>> /\ s[Len(s)] \in Whitespace
  THEN trimEnd(SubSeq(s, 1, Len(s) - 1))
  ELSE s

trim(s) == trimEnd(trimStart(s))

startsWith(s, p) == Len(p) <= Len(s) /\ SubSeq(s, 1, Len(p)) = p

slice(s, n) == SubSeq(s, n + 1, Len(s))

GUI == <<"/", "g", "u", "i">>

----------------------------------------------------------------------------
(* Endpoint canonicalization and validation *)

\* The character class also admits '/'.
endpointPattern_nested(endpoint) ==
  /\ Len(endpoint) >= 2
  /\ endpoint[1] = "/"
  /\ \A i \in 2..Len(endpoint) :
        endpoint[i] \in LowerLetters \cup Digits \cup {"-", "_", "/"}

\* /^\/[a-z0-9-_]+$/.test(endpoint)
endpointPattern(endpoint) ==
  /\ Len(endpoint) >= 2
  /\ endpoint[1] = "/"
  /\ \A i \in 2..Len(endpoint) :
        endpoint[i] \in LowerLetters \cup Digits \cup {"-", "_"}

\* The format test alone, the reserved name forgotten.
isValidEndpoint_noReserved(endpoint) ==
  /\ Len(endpoint) >= 2
  /\ endpoint[1] = "/"
  /\ \A i \in 2..Len(endpoint) :
        endpoint[i] \in LowerLetters \cup Digits \cup {"-", "_"}

\* /^\/[a-z0-9-_]+$/.test(endpoint) && endpoint !== '/gui'
isValidEndpoint(endpoint) == endpointPattern(endpoint) /\ endpoint # GUI

\* The shared tail of both canonicalizations: '' stays falsy, otherwise a
\* leading slash is prepended when absent.
withSlash(s) ==
  IF s = <<>> THEN <<>>
  ELSE IF startsWith(s, <<"/">>) THEN s ELSE <<"/">> \o s

\* helpers build: null for undefined/null, else String(raw) trimmed, lowered
\* and slashed.  The falsy results (null, '') are both written <<>>.
canonicalizeEndpoint(raw) ==
  IF raw.t = "undefined" THEN <<>>
  ELSE withSlash(toLowerCase(trim(raw.s)))

\* inline build: data.endpoint?.trim().toLowerCase() throws a TypeError when
\* the field is neither undefined nor a string (a number has no trim).
inlineThrows(raw) == raw.t = "number"

inlineCanonical(raw) ==
  IF raw.t = "undefined" THEN <<>>
  ELSE withSlash(toLowerCase(trim(raw.s)))

----------------------------------------------------------------------------
(* parseInt(data.port) *)

DigitVal(c) ==
  CASE c = "0" -> 0 [] c = "1" -> 1 [] c = "2" -> 2 [] c = "3" -> 3
    [] c = "4" -> 4 [] c = "5" -> 5 [] c = "6" -> 6 [] c = "7" -> 7
    [] c = "8" -> 8 [] c = "9" -> 9

RECURSIVE digitsPrefix(_)
digitsPrefix(s) ==
  IF s # <<>> /\ Head(s) \in Digits
  THEN <<Head(s)>> \o digitsPrefix(Tail(s))
  ELSE <<>>

RECURSIVE digitsValue(_, _)
digitsValue(s, acc) ==
  IF s = <<>> THEN acc ELSE digitsValue(Tail(s), 10 * acc + DigitVal(Head(s)))

NaN == [nan |-> TRUE, n |-> 0]

\* Leading white space is skipped, an optional sign is read, then the longest
\* run of decimal digits; NaN when there is none.  (The port fields drawn
\* below carry no 0x prefix, the one case where parseInt reads another radix.)
parseInt(raw) ==
  IF raw.t = "undefined" THEN NaN
  ELSE LET s    == trimStart(raw.s)
           neg  == s # <<>> /\ Head(s) = "-"
           body == IF s # <<>> /\ Head(s) \in {"-", "+"} THEN Tail(s) ELSE s
           ds   == digitsPrefix(body)
       IN  IF ds = <<>> THEN NaN
           ELSE [nan |-> FALSE,
                 n   |-> IF neg THEN 0 - digitsValue(ds, 0) ELSE digitsValue(ds, 0)]

\* The range test without its upper end.
invalidPort_noUpper(port) == port.nan \/ port.n < 1

invalidPort(port) == port.nan \/ port.n < 1 \/ port.n > 65535

----------------------------------------------------------------------------
(* The routing table as a JavaScript object *)

keys(m) == [i \in 1..Len(m) |-> m[i].k]

hasOwnProperty(m, k) == \E i \in 1..Len(m) : m[i].k = k

get(m, k) == m[CHOOSE i \in 1..Len(m) : m[i].k = k].v

\* An assignment that never overwrites.
set_keepOld(m, k, v) ==
  IF \E i \in 1..Len(m) : m[i].k = k THEN m ELSE Append(m, [k |-> k, v |-> v])

\* mappings[k] = v : an existing key keeps its position
set(m, k, v) ==
  IF hasOwnProperty(m, k)
  THEN [i \in 1..Len(m) |-> IF m[i].k = k THEN [k |-> k, v |-> v] ELSE m[i]]
  ELSE Append(m, [k |-> k, v |-> v])

\* A delete that drops the first entry when the key is not there.
RECURSIVE delete_orFirst(_, _)
delete_orFirst(m, k) ==
  IF m = <<>> THEN <<>>
  ELSE IF \A i \in 1..Len(m) : m[i].k # k THEN Tail(m)
  ELSE IF Head(m).k = k THEN delete_orFirst(Tail(m), k)
  ELSE <<Head(m)>> \o delete_orFirst(Tail(m), k)

\* delete mappings[k]
RECURSIVE delete(_, _)
delete(m, k) ==
  IF m = <<>> THEN <<>>
  ELSE IF Head(m).k = k THEN delete(Tail(m), k)
  ELSE <<Head(m)>> \o delete(Tail(m), k)

\* Number.prototype.toString of a non-negative integer
RECURSIVE toDigits(_)
toDigits(n) ==
  LET d == CHOOSE c \in Digits : DigitVal(c) = n % 10
  IN  IF n < 10 THEN <<d>> ELSE toDigits(n \div 10) \o <<d>>

\* JSON.stringify(mappings, null, 2): one member per own key, in key order,
\* each port written as a decimal literal.
RECURSIVE JSONstringify(_)
JSONstringify(m) ==
  IF m = <<>> THEN <<>>
  ELSE <<[k |-> Head(m).k, v |-> toDigits(Head(m).v)]>> \o JSONstringify(Tail(m))

\* JSON.parse of a stored document: a repeated key keeps its first position
\* and takes its last value.
RECURSIVE JSONparse(_)
JSONparse(doc) ==
  IF doc = <<>> THEN <<>>
  ELSE LET last == doc[Len(doc)]
       IN  set(JSONparse(SubSeq(doc, 1, Len(doc) - 1)), last.k, digitsValue(last.v, 0))

\* fs.existsSync(MAPPINGS_FILE) ? JSON.parse(fs.readFileSync(...)) : {}
load(f) == IF f.exists THEN JSONparse(f.text) ELSE <<>>

NoFile == [exists |-> FALSE, text |-> <<>>]

\* fs.writeFileSync(MAPPINGS_FILE, JSON.stringify(mappings, null, 2))
saveMappings(m) == [exists |-> TRUE, text |-> JSONstringify(m)]

----------------------------------------------------------------------------
(* Endpoint resolution *)

\* The comparator turned round: shortest first.
RECURSIVE insertByLength_ascending(_, _)
insertByLength_ascending(sorted, e) ==
  IF sorted = <<>> THEN <<e>>
  ELSE IF Len(Head(sorted)) <= Len(e)
       THEN <<Head(sorted)>> \o insertByLength_ascending(Tail(sorted), e)
       ELSE <<e>> \o sorted

\* Array.prototype.sort((a, b) => b.length - a.length): stable, longest first
RECURSIVE insertByLength(_, _)
insertByLength(sorted, e) ==
  IF sorted = <<>> THEN <<e>>
  ELSE IF Len(Head(sorted)) >= Len(e)
       THEN <<Head(sorted)>> \o insertByLength(Tail(sorted), e)
       ELSE <<e>> \o sorted

RECURSIVE sortByLength(_)
sortByLength(s) ==
  IF s = <<>> THEN <<>>
  ELSE insertByLength(sortByLength(SubSeq(s, 1, Len(s) - 1)), s[Len(s)])

matches(path, endpoint) ==
  path = endpoint \/ startsWith(path, endpoint \o <<"/">>)

\* for (const endpoint of sortedEndpoints) if (...) return ...
RECURSIVE scan(_, _)
scan(sortedEndpoints, path) ==
  IF sortedEndpoints = <<>> THEN <<>>
  ELSE IF matches(path, Head(sortedEndpoints)) THEN <<Head(sortedEndpoints)>>
  ELSE scan(Tail(sortedEndpoints), path)

Origin == "http://host"

\* new URL(referer): throws unless the string is an absolute URL
urlThrows(referer) == referer = <<>> \/ Head(referer) # Origin

RECURSIVE upTo(_, _)
upTo(s, stops) ==
  IF s = <<>> \/ Head(s) \in stops THEN <<>>
  ELSE <<Head(s)>> \o upTo(Tail(s), stops)

\* URL.pathname of an absolute http URL: what follows the origin up to the
\* query or fragment, '/' when that is empty
refPathname(referer) ==
  LET p == upTo(Tail(referer), {"?", "#"})
  IN  IF p = <<>> THEN <<"/">> ELSE p

NoMatch == [found |-> FALSE, endpoint |-> <<>>, port |-> 0, matchedByPath |-> FALSE]

\* The referer looked at first.
findEndpoint_refererFirst(m, path, referer) ==
  LET sortedEndpoints == sortByLength(keys(m))
      byPath == scan(sortedEndpoints, path)
      byRef  == IF referer # <<>> /\ ~urlThrows(referer)
                THEN scan(sortedEndpoints, refPathname(referer))
                ELSE <<>>
  IN  IF byRef # <<>>
      THEN [found |-> TRUE, endpoint |-> byRef[1], port |-> get(m, byRef[1]),
            matchedByPath |-> FALSE]
      ELSE IF byPath # <<>>
      THEN [found |-> TRUE, endpoint |-> byPath[1], port |-> get(m, byPath[1]),
            matchedByPath |-> TRUE]
      ELSE NoMatch

findEndpoint(m, path, referer) ==
  LET sortedEndpoints == sortByLength(keys(m))
      byPath == scan(sortedEndpoints, path)
      byRef  == IF referer # <<>> /\ ~urlThrows(referer)
                THEN scan(sortedEndpoints, refPathname(referer))
                ELSE <<>>
  IN  IF byPath # <<>>
      THEN [found |-> TRUE, endpoint |-> byPath[1], port |-> get(m, byPath[1]),
            matchedByPath |-> TRUE]
      ELSE IF byRef # <<>>
      THEN [found |-> TRUE, endpoint |-> byRef[1], port |-> get(m, byRef[1]),
            matchedByPath |-> FALSE]
      ELSE NoMatch

----------------------------------------------------------------------------
(* Request inputs *)

\* Endpoint fields that canonicalize to a valid endpoint ('/a', '/5'); the
\* number does so only where String(raw) is applied.
GoodEndpoints ==
  { Str(<<" ", "A", " ">>),
    Str(<<"/", "5">>),
    Num(<<"5">>) }

\* Endpoint fields that are missing, empty after trimming, or canonicalize to
\* something the format or the reserved name rejects.
BadEndpoints ==
  { Undefined,
    Str(<<" ">>),
    Str(<<"A", " ", "a", "!">>),
    Str(<<"G", "U", "I">>),
    Str(<<"/", "/", "a">>),
    Str(<<"/", "a", "/", "a">>) }

GoodPorts ==
  { Str(<<"1">>),
    Str(<<"1", "x">>),
    Num(<<"6", "5", "5", "3", "5">>) }

BadPorts ==
  { Undefined,
    Str(<<"x">>),
    Str(<<"0">>),
    Str(<<"-", "1">>),
    Num(<<"6", "5", "5", "3", "6">>) }

RenameOldInputs ==
  { Undefined,
    Str(<<"a">>),
    Str(<<"/", "5">>),
    Str(<<"/", "g", "u", "i">>) }

RenameNewInputs ==
  { Str(<<" ">>),
    Str(<<"A">>),
    Str(<<"/", "5">>),
    Num(<<"5">>),
    Str(<<"A", " ", "a", "!">>),
    Str(<<"G", "U", "I">>) }

Body(parse, action, endpoint, port, oldEndpoint, newEndpoint) ==
  [parse |-> parse, action |-> action, endpoint |-> endpoint, port |-> port,
   oldEndpoint |-> oldEndpoint, newEndpoint |-> newEndpoint]

\* The request bodies POSTed to /update: text that is no JSON, the JSON
\* literal null, and objects with an action.
UpdateBodies ==
       { Body("error", "", Undefined, Undefined, Undefined, Undefined),
         Body("null", "", Undefined, Undefined, Undefined, Undefined),
         Body("object", "touch", Undefined, Undefined, Undefined, Undefined) }
  \cup { Body("object", "add", e, p, Undefined, Undefined) :
           e \in GoodEndpoints, p \in GoodPorts \cup BadPorts }
  \cup { Body("object", "add", e, Str(<<"1">>), Undefined, Undefined) :
           e \in BadEndpoints }
  \cup { Body("object", "delete", e, Undefined, Undefined, Undefined) :
           e \in GoodEndpoints \cup {Undefined, Str(<<" ">>), Str(<<"G", "U", "I">>)} }
  \cup { Body("object", "rename", Undefined, Undefined, o, n) :
           o \in RenameOldInputs, n \in RenameNewInputs }

\* Request targets and referer headers of proxy requests: (url, referer)
ProxyRequests ==
       { <<u, <<>>>> :
           u \in { <<"/", "a">>,
                   <<"/", "a", "/", "x">>,
                   <<"/", "a", "x">>,
                   <<"/", "a", "?", "x">>,
                   <<"/", "a", "/", "a", "/", "x">>,
                   <<"/", "5", "/">>,
                   <<"/", "g", "u", "i">>,
                   <<"/", "g", "u", "i", "/", "a">>,
                   <<"/", "g", "u", "i", "x", "?">> } }
  \cup { <<<<"/", "x", "/", "a">>, r>> :
           r \in { <<>>,
                   <<"/", "a">>,
                   <<Origin>>,
                   <<Origin, "/", "a", "/", "x", "?", "x">>,
                   <<Origin, "/", "5">> } }
  \cup { <<u, <<Origin, "/", "a">>>> :
           u \in { <<"/", "5">>,
                   <<"/", "g", "u", "i">>,
                   <<"/", "g", "u", "i", "/", "a">> } }

----------------------------------------------------------------------------
(* Admin server: the 'end' callback of POST /update *)

Response(status, text) == [status |-> status, text |-> text]

Outcome(m, save, status, text) ==
  [m |-> m, save |-> save, res |-> Response(status, text)]

throws(b, raw) == b = "inline" /\ inlineThrows(raw)

canonical(b, raw) ==
  IF b = "helpers" THEN canonicalizeEndpoint(raw) ELSE inlineCanonical(raw)

addAction(b, m, data) ==
  LET endpoint == canonical(b, data.endpoint)
      port     == parseInt(data.port)
  IN  IF throws(b, data.endpoint) THEN Outcome(m, FALSE, 400, "Invalid JSON")
      ELSE IF endpoint = <<>> \/ ~isValidEndpoint(endpoint)
      THEN Outcome(m, FALSE, 400, "Invalid endpoint")
      ELSE IF invalidPort(port) THEN Outcome(m, FALSE, 400, "Invalid port")
      ELSE Outcome(set(m, endpoint, port.n), TRUE, 200, "OK")

\* The delete that answers before the table is saved.
deleteAction_unsaved(b, m, data) ==
  LET endpoint == canonical(b, data.endpoint)
  IN  IF throws(b, data.endpoint) THEN Outcome(m, FALSE, 400, "Invalid JSON")
      ELSE IF endpoint = <<>> THEN Outcome(m, FALSE, 400, "Invalid endpoint")
      ELSE Outcome(delete(m, endpoint), FALSE, 200, "OK")

deleteAction(b, m, data) ==
  LET endpoint == canonical(b, data.endpoint)
  IN  IF throws(b, data.endpoint) THEN Outcome(m, FALSE, 400, "Invalid JSON")
      ELSE IF endpoint = <<>> THEN Outcome(m, FALSE, 400, "Invalid endpoint")
      ELSE Outcome(delete(m, endpoint), TRUE, 200, "OK")

\* The rename that answers a missing source like any other invalid input.
renameAction_missingIs400(b, m, data) ==
  LET oldEndpoint == canonical(b, data.oldEndpoint)
      newEndpoint == canonical(b, data.newEndpoint)
  IN  IF throws(b, data.oldEndpoint) \/ throws(b, data.newEndpoint)
      THEN Outcome(m, FALSE, 400, "Invalid JSON")
      ELSE IF oldEndpoint = <<>> \/ newEndpoint = <<>>
              \/ ~isValidEndpoint(newEndpoint) \/ ~hasOwnProperty(m, oldEndpoint)
      THEN Outcome(m, FALSE, 400, "Invalid endpoint")
      ELSE Outcome(delete(set(m, newEndpoint, get(m, oldEndpoint)), oldEndpoint),
                   TRUE, 200, "OK")

renameAction(b, m, data) ==
  LET oldEndpoint == canonical(b, data.oldEndpoint)
      newEndpoint == canonical(b, data.newEndpoint)
  IN  IF throws(b, data.oldEndpoint) \/ throws(b, data.newEndpoint)
      THEN Outcome(m, FALSE, 400, "Invalid JSON")
      ELSE IF oldEndpoint = <<>> \/ newEndpoint = <<>>
      THEN Outcome(m, FALSE, 400, "Invalid endpoint")
      ELSE IF ~isValidEndpoint(newEndpoint)
      THEN Outcome(m, FALSE, 400,
                   IF b = "inline" THEN "Invalid new endpoint" ELSE "Invalid endpoint")
      ELSE IF ~hasOwnProperty(m, oldEndpoint)
      THEN Outcome(m, FALSE, 404, "Old endpoint not found")
      ELSE Outcome(delete(set(m, newEndpoint, get(m, oldEndpoint)), oldEndpoint),
                   TRUE, 200, "OK")

\* The body of the try block up to saveMappings(): what the table becomes,
\* whether saveMappings() is reached, and the response if it is not (or if it
\* returns).  JSON.parse failing and data being null both land in the catch.
update(b, m, data) ==
  IF data.parse # "object" THEN Outcome(m, FALSE, 400, "Invalid JSON")
  ELSE IF data.action = "add" THEN addAction(b, m, data)
  ELSE IF data.action = "delete" THEN deleteAction(b, m, data)
  ELSE IF data.action = "rename" THEN renameAction(b, m, data)
  ELSE Outcome(m, TRUE, 200, "OK")

NoUpstream == [sent |-> FALSE, port |-> 0, path |-> <<>>, search |-> <<>>]

\* The exchange with the backend of the request being looked at: where the
\* backend request is, whether the caller is still connected, how many times
\* res.writeHead was called, how many backend requests were made, and the
\* port the 502 body names.
NoConn == [state |-> "none", client |-> "connected", heads |-> 0,
           attempts |-> 0, named |-> 0]

\* The table a request read, if it read it
NoSeen == [read |-> FALSE, table |-> <<>>]

\* The callback that is running; "idle" between callbacks
Idle == [pc |-> "idle"]

\* The admin read in flight and the last listing sent
NoRead == [active |-> FALSE, entries |-> <<>>, i |-> 0, result |-> <<>>,
           began |-> <<>>]

NoListing == [sent |-> FALSE, began |-> <<>>, body |-> <<>>]

\* A callback runs to completion: the next one starts when the running one
\* has returned to the event loop.  The rename branch has no await between
\* its two assignments, so only "idle" yields.
yields_midRename(pc) == pc \in {"idle", "renameDelete"}

yields(pc) == pc = "idle"

\* What fs.writeFileSync does when saveMappings() is reached: it returns
\* ("ok"), it throws before the file is opened ("failed"), or it throws after
\* the file was truncated ("torn").  A throw is caught by the handler's catch
\* and answered 400 'Invalid JSON'; the table keeps the change already made.
WriteOutcomes == {"ok", "failed", "torn"}

Torn == [exists |-> TRUE, text |-> <<[k |-> <<"{">>, v |-> <<>>]>>]

\* The write that throws only once the whole document is in the file.
writeFileSync_throwsLate(f, m, write) ==
  IF write = "failed" THEN f ELSE saveMappings(m)

\* The file after fs.writeFileSync(MAPPINGS_FILE, ...) with each outcome
writeFileSync(f, m, write) ==
  IF write = "failed" THEN f
  ELSE IF write = "ok" THEN saveMappings(m)
  ELSE Torn

guiServerUpdate(data, write) ==
  LET out == update(build, mappings, data)
  IN  /\ req.kind = "none"
      /\ yields(task.pc)
      /\ out.save \/ write = "ok"
      /\ mappings' = out.m
      /\ file' = IF out.save THEN writeFileSync(file, out.m, write) ELSE file
      /\ res' = IF out.save /\ write # "ok"
                THEN Response(400, "Invalid JSON")
                ELSE out.res
      /\ req' = [kind |-> "update", data |-> data,
                 write |-> IF out.save THEN write ELSE "none"]
      /\ match' = NoMatch
      /\ upstream' = NoUpstream
      /\ conn' = NoConn
      /\ UNCHANGED <<build, seen, task, read, listing>>

----------------------------------------------------------------------------
(* Proxy server *)

\* new URL(req.url, base).pathname and .search for an origin-form request
\* target; a lone '?' gives an empty search.
pathname(url) == upTo(url, {"?", "#"})

search(url) ==
  LET rest == slice(url, Len(pathname(url)))
      q    == IF rest # <<>> /\ Head(rest) = "?"
              THEN <<"?">> \o upTo(Tail(rest), {"#"})
              ELSE <<>>
  IN  IF q = <<"?">> THEN <<>> ELSE q

\* Only the reserved path itself, not what is nested under it.
blocked_exactOnly(path) == path = GUI

blocked(path) == path = GUI \/ startsWith(path, GUI \o <<"/">>)

\* The prefix is stripped whatever the kind of match, and an empty remainder
\* is left empty.
targetPath_alwaysStrip(matchedByPath, endpoint, path) == slice(path, Len(endpoint))

\* matchedByPath ? (path.slice(endpoint.length) || '/') : path
targetPath(matchedByPath, endpoint, path) ==
  IF matchedByPath
  THEN (IF slice(path, Len(endpoint)) = <<>>
        THEN <<"/">>
        ELSE slice(path, Len(endpoint)))
  ELSE path

proxyServer(url, referer) ==
  LET path  == pathname(url)
      found == findEndpoint(mappings, path, referer)
  IN  /\ req.kind = "none"
      /\ yields(task.pc)
      /\ req' = [kind |-> "proxy", url |-> url, referer |-> referer]
      /\ IF blocked(path)
         THEN /\ res' = Response(404, "Not Found")
              /\ match' = NoMatch
              /\ upstream' = NoUpstream
              /\ conn' = [NoConn EXCEPT !.heads = 1]
              /\ seen' = NoSeen
         ELSE IF found.found
         THEN /\ res' = Response(0, "")
              /\ match' = found
              /\ upstream' = [sent |-> TRUE, port |-> found.port,
                              path |-> targetPath(found.matchedByPath, found.endpoint, path),
                              search |-> search(url)]
              /\ conn' = [NoConn EXCEPT !.state = "inflight", !.attempts = 1]
              /\ seen' = [read |-> TRUE, table |-> mappings]
         ELSE /\ res' = Response(404, "Not Found")
              /\ match' = NoMatch
              /\ upstream' = NoUpstream
              /\ conn' = [NoConn EXCEPT !.heads = 1]
              /\ seen' = [read |-> TRUE, table |-> mappings]
      /\ UNCHANGED <<build, mappings, file, task, read, listing>>

\* Statuses a backend answers with
BackendStatuses == {200, 404, 500}

\* The callback of http.request: the backend's status line and headers are
\* copied to the caller and the body is piped.  Nothing looks at whether the
\* caller is still there.
proxyRes(status) ==
  /\ conn.state = "inflight"
  /\ yields(task.pc)
  /\ res' = Response(status, "proxyRes")
  /\ conn' = [conn EXCEPT !.state = "responded", !.heads = @ + 1]
  /\ UNCHANGED <<build, mappings, file, req, match, upstream, seen, task,
                 read, listing>>

\* The port of the proxy itself
PORT == 3003

\* The body names the proxy's own port.
badGateway_ownPort(port) ==
  [res |-> Response(502, "Bad Gateway - Is app running on port ?"),
   named |-> PORT]

\* res.writeHead(502, ...); res.end('Bad Gateway - Is app running on port '
\* + port + '?')
badGateway(port) ==
  [res |-> Response(502, "Bad Gateway - Is app running on port ?"),
   named |-> port]

\* proxyReq's 'error' listener.  A socket error is reported on the request
\* whether or not a response has begun; the listener calls res.writeHead
\* without looking at res.headersSent, and writeHead throws when the head is
\* already out: nothing catches it, the process ends.
proxyReqError ==
  /\ conn.state \in {"inflight", "responded"}
  /\ yields(task.pc)
  /\ IF conn.heads = 0
     THEN /\ res' = badGateway(upstream.port).res
          /\ conn' = [conn EXCEPT !.state = "failed", !.heads = 1,
                                  !.named = badGateway(upstream.port).named]
     ELSE /\ res' = res
          /\ conn' = [conn EXCEPT !.state = "crashed", !.heads = @ + 1]
  /\ UNCHANGED <<build, mappings, file, req, match, upstream, seen, task,
                 read, listing>>

\* The caller goes away while the backend has not answered.  The handler
\* registered no 'close' or 'aborted' listener on req or res, and pipe() does
\* not destroy its destination: the backend request stays as it is.
clientClose ==
  /\ conn.state = "inflight"
  /\ conn.client = "connected"
  /\ conn' = [conn EXCEPT !.client = "gone"]
  /\ UNCHANGED <<build, mappings, file, req, res, match, upstream, seen,
                 task, read, listing>>

----------------------------------------------------------------------------
(* Admin server: GET /get and the liveness probes *)

\* What ends a probe first: the backend's response, an error of the
\* connection, or the 2000 ms timeout.  The promise keeps its first
\* resolution, and there is no reject.
ProbeEvents ==
  { [type |-> "response", status |-> s] : s \in BackendStatuses }
    \cup { [type |-> "error", status |-> 0], [type |-> "timeout", status |-> 0] }

\* A response of any status counts as online.
checkPortStatus_anyResponse(event) == event.type = "response"

\* resolve(res.statusCode < 500) on a response, resolve(false) on 'error' and
\* on 'timeout'
checkPortStatus(event) == event.type = "response" /\ event.status < 500

\* The port is looked up in the table when the probe is made.
entryAt_live(entries, m, i) ==
  [k |-> entries[i].k,
   v |-> IF hasOwnProperty(m, entries[i].k) THEN get(m, entries[i].k) ELSE 0]

\* The i-th [endpoint, port] pair of the loop: Object.entries(mappings) is
\* evaluated once, when the loop starts, and the pairs are copies.
entryAt(entries, m, i) == entries[i]

\* The probe's result is stored in the table itself.
assign_toTable(m, result, entry, event) ==
  [m |-> set(m, entry.k, IF checkPortStatus(event) THEN entry.v ELSE 0),
   result |-> Append(result, [k |-> entry.k, port |-> entry.v,
                              online |-> checkPortStatus(event),
                              event |-> event])]

\* const online = await checkPortStatus(port); result[endpoint] = { port,
\* online }.  The entry also remembers what ended the probe.
assign(m, result, entry, event) ==
  [m |-> m,
   result |-> Append(result, [k |-> entry.k, port |-> entry.v,
                              online |-> checkPortStatus(event),
                              event |-> event])]

\* res.writeHead(200, ...); res.end(JSON.stringify(status))
Listing(began, body) == [sent |-> TRUE, began |-> began, body |-> body]

\* GET /get: getMappingsWithStatus() runs up to its first await.  With an
\* empty table the loop body never runs and the listing is sent.
guiServerGet ==
  /\ yields(task.pc)
  /\ conn.state # "crashed"
  /\ ~read.active /\ ~listing.sent
  /\ IF mappings = <<>>
     THEN /\ listing' = Listing(mappings, <<>>)
          /\ read' = NoRead
     ELSE /\ listing' = listing
          /\ read' = [active |-> TRUE, entries |-> mappings, i |-> 1,
                      result |-> <<>>, began |-> mappings]
  /\ UNCHANGED <<build, mappings, file, req, res, match, upstream, conn,
                 seen, task>>

\* The pending probe resolves and the loop goes on to the next pair, or, past
\* the last one, the promise of getMappingsWithStatus resolves and the
\* listing is sent.
probeSettle(event) ==
  LET entry == entryAt(read.entries, mappings, read.i)
      out   == assign(mappings, read.result, entry, event)
  IN  /\ read.active
      /\ yields(task.pc)
      /\ conn.state # "crashed"
      /\ mappings' = out.m
      /\ IF read.i = Len(read.entries)
         THEN /\ listing' = Listing(read.began, out.result)
              /\ read' = NoRead
         ELSE /\ listing' = listing
              /\ read' = [read EXCEPT !.i = @ + 1, !.result = out.result]
      /\ UNCHANGED <<build, file, req, res, match, upstream, conn, seen, task>>

----------------------------------------------------------------------------
(* Admin server: the rename branch, one assignment at a time *)

\* The rename passed validation: mappings[newEndpoint] = mappings[oldEndpoint]
renameAssign(data) ==
  LET oldEndpoint == canonical(build, data.oldEndpoint)
      newEndpoint == canonical(build, data.newEndpoint)
  IN  /\ req.kind = "none"
      /\ yields(task.pc)
      /\ data.parse = "object" /\ data.action = "rename"
      /\ renameAction(build, mappings, data).save
      /\ mappings' = set(mappings, newEndpoint, get(mappings, oldEndpoint))
      /\ task' = [pc |-> "renameDelete", data |-> data, before |-> mappings]
      /\ UNCHANGED <<build, file, req, res, match, upstream, conn, seen, read,
                     listing>>

\* delete mappings[oldEndpoint]; saveMappings(); and the answer
renameDelete(write) ==
  /\ task.pc = "renameDelete"
  /\ mappings' = delete(mappings, canonical(build, task.data.oldEndpoint))
  /\ file' = writeFileSync(file, mappings', write)
  /\ res' = IF write = "ok" THEN Response(200, "OK")
            ELSE Response(400, "Invalid JSON")
  /\ req' = [kind |-> "update", data |-> task.data, write |-> write]
  /\ match' = NoMatch
  /\ upstream' = NoUpstream
  /\ conn' = NoConn
  /\ task' = Idle
  /\ UNCHANGED <<build, seen, read, listing>>

----------------------------------------------------------------------------
(* Specifications *)

NoRequest == [kind |-> "none"]

\* The servers wait for the next request: the exchange recorded in req, res
\* and upstream is no longer looked at.
listen ==
  /\ req.kind # "none" \/ listing.sent
  /\ conn.state # "crashed"
  /\ yields(task.pc)
  /\ req' = NoRequest
  /\ res' = Response(0, "")
  /\ match' = NoMatch
  /\ upstream' = NoUpstream
  /\ conn' = NoConn
  /\ seen' = NoSeen
  /\ listing' = NoListing
  /\ UNCHANGED <<build, mappings, file, task, read>>

\* First start: no stored mappings file, so the table is empty.
Init ==
  /\ build \in Builds
  /\ file = NoFile
  /\ mappings = load(file)
  /\ req = NoRequest
  /\ res = Response(0, "")
  /\ match = NoMatch
  /\ upstream = NoUpstream
  /\ conn = NoConn
  /\ seen = NoSeen
  /\ task = Idle
  /\ read = NoRead
  /\ listing = NoListing

Member(k, v) == [k |-> k, v |-> v]

\* Documents a previous run, or an editor, may have left in the mappings
\* file: nested endpoints in both orders, the reserved name and keys under
\* it, an empty key, a repeated key.
StoredDocuments ==
  { <<>>,
    <<Member(<<"/", "a">>, <<"1">>),
      Member(<<"/", "a", "/", "a">>, <<"2">>)>>,
    <<Member(<<"/", "a", "/", "a">>, <<"2">>),
      Member(<<"/", "a">>, <<"1">>)>>,
    <<Member(<<"/", "a">>, <<"1">>),
      Member(<<"/", "a", "/", "a">>, <<"2">>),
      Member(<<"/", "a", "/", "a", "/", "x">>, <<"3">>)>>,
    <<Member(<<"/", "g", "u", "i">>, <<"1">>),
      Member(<<"/", "g", "u", "i", "/", "a">>, <<"2">>),
      Member(<<"/", "a">>, <<"3">>)>>,
    <<Member(<<>>, <<"1">>),
      Member(<<"/", "5">>, <<"2">>)>>,
    <<Member(<<"/", "a">>, <<"1">>),
      Member(<<"/", "a", "x">>, <<"2">>),
      Member(<<"/", "5">>, <<"3">>)>>,
    <<Member(<<"/", "x">>, <<"1">>),
      Member(<<"/", "a">>, <<"2">>),
      Member(<<"/", "x">>, <<"6", "5", "5", "3", "5">>)>> }

\* A later start: the table is whatever the stored document holds.
InitLoaded ==
  /\ build \in Builds
  /\ file \in { [exists |-> TRUE, text |-> d] : d \in StoredDocuments }
  /\ mappings = load(file)
  /\ req = NoRequest
  /\ res = Response(0, "")
  /\ match = NoMatch
  /\ upstream = NoUpstream
  /\ conn = NoConn
  /\ seen = NoSeen
  /\ task = Idle
  /\ read = NoRead
  /\ listing = NoListing

Update == \E data \in UpdateBodies, write \in WriteOutcomes : guiServerUpdate(data, write)

Proxy == \E r \in ProxyRequests : proxyServer(r[1], r[2])

Backend == (\E status \in BackendStatuses : proxyRes(status)) \/ proxyReqError

Next == Update \/ Proxy \/ Backend \/ clientClose \/ listen

Spec == Init /\ [][Next]_vars

\* The storage never fails
UpdateOk == \E data \in UpdateBodies : guiServerUpdate(data, "ok")

NextWritesOk == UpdateOk \/ Proxy \/ Backend \/ clientClose \/ listen

SpecWritesOk == Init /\ [][NextWritesOk]_vars

\* A loaded table, read by proxy requests
NextLoaded == Proxy \/ Backend \/ clientClose \/ listen

SpecLoaded == InitLoaded /\ [][NextLoaded]_vars

\* Requests handled while an admin read waits for its probes, the rename in
\* two steps
ConcEndpoints == {Str(<<" ", "A", " ">>), Str(<<"/", "5">>)}

ConcBodies ==
       { Body("object", "add", Str(<<" ", "A", " ">>), Str(<<"1">>), Undefined, Undefined),
         Body("object", "add", Str(<<"/", "5">>), Num(<<"6", "5", "5", "3", "5">>), Undefined, Undefined) }
  \cup { Body("object", "delete", e, Undefined, Undefined, Undefined) :
           e \in ConcEndpoints }
  \cup { Body("object", "rename", Undefined, Undefined, o, n) :
           o \in {Str(<<"a">>), Str(<<"/", "5">>)},
           n \in {Str(<<"A">>), Str(<<"/", "5">>)} }

ConcRequests ==
  { <<<<"/", "a", "/", "x">>, <<>>>>,
    <<<<"/", "5">>, <<>>>> }

\* The write succeeds or fails before the file is opened
ConcWrites == {"ok", "failed"}

\* The updates that run in one step: all but the renames that pass validation
UpdateWhole ==
  \E data \in ConcBodies, write \in ConcWrites :
    /\ data.action = "rename" => ~renameAction(build, mappings, data).save
    /\ guiServerUpdate(data, write)

Rename ==
  \/ \E data \in ConcBodies : renameAssign(data)
  \/ \E write \in ConcWrites : renameDelete(write)

ProxyConc == \E r \in ConcRequests : proxyServer(r[1], r[2])

\* With other requests in between, a probe is answered or refused
ConcEvents == { e \in ProbeEvents : e.status = 200 \/ e.type = "error" }

SettleConc == \E event \in ConcEvents : probeSettle(event)

Settle == \E event \in ProbeEvents : probeSettle(event)

NextConc ==
  \/ UpdateWhole \/ Rename
  \/ ProxyConc \/ Backend \/ clientClose
  \/ guiServerGet \/ SettleConc
  \/ listen

SpecConc == Init /\ [][NextConc]_vars

\* Admin reads of a loaded table, every probe ending in any of the ways it
\* can.  A pending probe does end: the backend answers, the connection
\* fails, or at the latest the timer set by `timeout: 2000` fires, and the
\* event loop runs the callback.
NextLive == guiServerGet \/ Settle \/ listen

SpecLive == InitLoaded /\ [][NextLive]_vars /\ WF_vars(Settle)

----------------------------------------------------------------------------
(* Vocabulary of the properties *)

UpperLetters == {"A", "G", "I", "U", "X"}

EndpointChars == LowerLetters \cup Digits \cup {"-", "_"}

Entries(m) == { <<m[i].k, m[i].v>> : i \in 1..Len(m) }

Keys(m) == { m[i].k : i \in 1..Len(m) }

\* The entries of m whose key is none of ks
Others(m, ks) == { e \in Entries(m) : e[1] \notin ks }

IsUpdate(r, action) ==
  r.kind = "update" /\ r.data.parse = "object" /\ r.data.action = action

\* The field has a canonical form in the running version
Canonicalizes(raw) == ~throws(build, raw) /\ canonical(build, raw) # <<>>

----------------------------------------------------------------------------
(* C1 *)

\* C1: from an empty table, after any sequence of update requests, every key
\* of the table is non-empty, lowercase, begins with exactly one '/', has
\* only characters of [a-z0-9-_] after the slash and is not '/gui', and every
\* stored port is an integer in 1..65535.
C1_KeysAndPortsValid ==
  \A i \in 1..Len(mappings) :
    LET k == mappings[i].k
        v == mappings[i].v
    IN  /\ k # <<>>
        /\ \A j \in 1..Len(k) : k[j] \notin UpperLetters
        /\ k[1] = "/"
        /\ Len(k) >= 2 => k[2] # "/"
        /\ \A j \in 2..Len(k) : k[j] \in EndpointChars
        /\ k # <<"/", "g", "u", "i">>
        /\ v \in 1..65535

\* Two entries are stored and a request naming the reserved endpoint has just
\* been turned away.
C1_Witness ==
  /\ Len(mappings) = 2
  /\ IsUpdate(req, "add")
  /\ req.data.endpoint = Str(<<"G", "U", "I">>)
  /\ res.status = 400

----------------------------------------------------------------------------
(* C2 *)

\* C2: after every rename answered 200 the table maps the canonical
\* newEndpoint to the port oldEndpoint held before the call, oldEndpoint is
\* absent when it differs from newEndpoint, and every other entry is
\* unchanged.
C2_RenameMovesPort ==
  [][ (IsUpdate(req', "rename") /\ res'.status = 200) =>
        LET a == canonical(build, req'.data.oldEndpoint)
            b == canonical(build, req'.data.newEndpoint)
        IN  /\ hasOwnProperty(mappings', b)
            /\ get(mappings', b) = get(mappings, a)
            /\ a # b => ~hasOwnProperty(mappings', a)
            /\ Others(mappings', {a, b}) = Others(mappings, {a, b}) ]_vars

----------------------------------------------------------------------------
(* C3 *)

\* C3 as stated: every rename whose canonical oldEndpoint is non-empty and
\* not a key of the table is answered 404, whatever newEndpoint is, and
\* leaves table and store unchanged.
C3_MissingSourceAlways404 ==
  [][ ( /\ IsUpdate(req', "rename")
        /\ Canonicalizes(req'.data.oldEndpoint)
        /\ ~hasOwnProperty(mappings, canonical(build, req'.data.oldEndpoint)) )
      => /\ res'.status = 404
         /\ mappings' = mappings
         /\ file' = file ]_vars

\* C3 amended: a rename whose canonical oldEndpoint is non-empty and not a
\* key of the table is answered 404 when newEndpoint canonicalizes to a valid
\* endpoint, and 400 when newEndpoint is missing, empty, not a string the
\* running version can canonicalize, or invalid; either way table and store
\* are unchanged.
C3_MissingSource404IfTargetValid ==
  [][ ( /\ IsUpdate(req', "rename")
        /\ Canonicalizes(req'.data.oldEndpoint)
        /\ ~hasOwnProperty(mappings, canonical(build, req'.data.oldEndpoint)) )
      => LET n == req'.data.newEndpoint
             targetValid ==
               /\ Canonicalizes(n)
               /\ canonical(build, n)[1] = "/"
               /\ Len(canonical(build, n)) >= 2
               /\ \A j \in 2..Len(canonical(build, n)) :
                     canonical(build, n)[j] \in EndpointChars
               /\ canonical(build, n) # <<"/", "g", "u", "i">>
         IN  /\ res'.status = IF targetValid THEN 404 ELSE 400
             /\ mappings' = mappings
             /\ file' = file ]_vars

\* A rename of an endpoint that is not stored, to a valid name, has been
\* answered 404 while another entry is stored.
C3_Witness ==
  /\ IsUpdate(req, "rename")
  /\ req.data.oldEndpoint = Str(<<"/", "5">>)
  /\ req.data.newEndpoint = Str(<<"A">>)
  /\ res = Response(404, "Old endpoint not found")
  /\ Len(mappings) = 1

----------------------------------------------------------------------------
(* C4 *)

\* The port a field denotes when it is a number, or a decimal string, in
\* 1..65535
IsPort(raw, p) ==
  /\ raw.t \in {"number", "string"}
  /\ raw.s # <<>>
  /\ \A j \in 1..Len(raw.s) : raw.s[j] \in Digits
  /\ p \in 1..65535
  /\ raw.s = toDigits(p)

\* An add whose endpoint canonicalizes to the valid endpoint e and whose port
\* is p in 1..65535
IsAddOf(r, e, p) ==
  /\ IsUpdate(r, "add")
  /\ Canonicalizes(r.data.endpoint)
  /\ e = canonical(build, r.data.endpoint)
  /\ \A j \in 2..Len(e) : e[j] \in EndpointChars
  /\ Len(e) >= 2
  /\ e # <<"/", "g", "u", "i">>
  /\ IsPort(r.data.port, p)

PortsOf == {1, 65535}

\* C4 as stated: for every endpoint input canonicalizing to a valid e and
\* every port p in 1..65535, add returns 200 and afterwards the table maps e
\* to p, every other entry unchanged.
C4_AddAlways200 ==
  [][ \A p \in PortsOf :
        IsAddOf(req', canonical(build, req'.data.endpoint), p) =>
          LET e == canonical(build, req'.data.endpoint)
          IN  /\ res'.status = 200
              /\ hasOwnProperty(mappings', e)
              /\ get(mappings', e) = p
              /\ Others(mappings', {e}) = Others(mappings, {e}) ]_vars

\* C4 amended: such an add always leaves the table mapping e to p
\* (overwriting any previous port of e) with every other entry unchanged, so
\* that a proxy resolution of path e finds port p by a direct match; it is
\* answered 200 when the store is written, and 400 when writing it fails.
\* And every proxy request for a path equal to a stored endpoint is sent to
\* the port stored for it.
C4_AddThenResolve ==
  [][ /\ \A p \in PortsOf :
           IsAddOf(req', canonical(build, req'.data.endpoint), p) =>
             LET e == canonical(build, req'.data.endpoint)
                 r == findEndpoint(mappings', e, <<>>)
             IN  /\ res'.status = IF req'.write = "ok" THEN 200 ELSE 400
                 /\ hasOwnProperty(mappings', e)
                 /\ get(mappings', e) = p
                 /\ Others(mappings', {e}) = Others(mappings, {e})
                 /\ r.found /\ r.matchedByPath /\ r.endpoint = e /\ r.port = p
      /\ (req'.kind = "proxy" /\ pathname(req'.url) \in Keys(mappings)) =>
           /\ upstream'.sent
           /\ \E i \in 1..Len(mappings) :
                /\ mappings[i].k = pathname(req'.url)
                /\ mappings[i].v = upstream'.port ]_vars

\* An add has just replaced the port of an endpoint that was stored, and
\* another entry is stored beside it.
C4_Witness ==
  /\ IsUpdate(req, "add")
  /\ res.status = 200
  /\ Len(mappings) = 2
  /\ file.exists
  /\ mappings[1].k = canonical(build, req.data.endpoint)
  /\ mappings[1].v = 65535
  /\ mappings[2].v = 1

----------------------------------------------------------------------------
(* C5 *)

InvalidEndpointField(raw) ==
  \/ ~Canonicalizes(raw)
  \/ LET e == canonical(build, raw)
     IN  \/ e[1] # "/"
         \/ Len(e) < 2
         \/ \E j \in 2..Len(e) : e[j] \notin EndpointChars
         \/ e = <<"/", "g", "u", "i">>

InvalidPortField(raw) ==
  LET p == parseInt(raw) IN p.nan \/ p.n \notin 1..65535

\* The requests the claim calls rejected: a body that is no JSON, an add or a
\* rename target whose endpoint is missing, empty or invalid, a delete or a
\* rename source that is missing or empty, an add whose port is not a number
\* in 1..65535.
Rejected(r) ==
  /\ r.kind = "update"
  /\ \/ r.data.parse = "error"
     \/ IsUpdate(r, "add") /\ InvalidEndpointField(r.data.endpoint)
     \/ IsUpdate(r, "add") /\ InvalidPortField(r.data.port)
     \/ IsUpdate(r, "delete") /\ ~Canonicalizes(r.data.endpoint)
     \/ IsUpdate(r, "rename") /\ InvalidEndpointField(r.data.newEndpoint)
     \/ IsUpdate(r, "rename") /\ ~Canonicalizes(r.data.oldEndpoint)

\* C5: every update rejected for an invalid endpoint, an invalid port or an
\* unparseable body is answered 400 and leaves the table and the persisted
\* store exactly as they were.
C5_RejectedChangesNothing ==
  [][ Rejected(req') =>
        /\ res'.status = 400
        /\ mappings' = mappings
        /\ file' = file ]_vars

\* An add with a port above 65535 has been answered 'Invalid port' while the
\* table holds an entry.
C5_Witness ==
  /\ IsUpdate(req, "add")
  /\ req.data.port = Num(<<"6", "5", "5", "3", "6">>)
  /\ res = Response(400, "Invalid port")
  /\ Len(mappings) >= 1

----------------------------------------------------------------------------
(* C6 *)

IsDeleteOfAbsent(r, m) ==
  /\ IsUpdate(r, "delete")
  /\ Canonicalizes(r.data.endpoint)
  /\ canonical(build, r.data.endpoint) \notin Keys(m)

\* C6 as stated: a delete of an endpoint that is not in the table is answered
\* 200 and leaves the table unchanged.
C6_DeleteAbsentAlways200 ==
  [][ IsDeleteOfAbsent(req', mappings) =>
        /\ res'.status = 200
        /\ mappings' = mappings ]_vars

\* C6 amended: a delete of an endpoint that is not in the table leaves the
\* table unchanged, and is answered 200 when the store is written and 400
\* when writing it fails; after any delete the endpoint is absent, so a
\* second delete of it yields the same table as the first.
C6_DeleteIdempotent ==
  [][ (IsUpdate(req', "delete") /\ Canonicalizes(req'.data.endpoint)) =>
        LET e == canonical(build, req'.data.endpoint)
        IN  /\ e \notin Keys(mappings')
            /\ Others(mappings', {e}) = Others(mappings, {e})
            /\ delete(mappings', e) = mappings'
            /\ IsDeleteOfAbsent(req', mappings) =>
                 /\ mappings' = mappings
                 /\ res'.status = IF req'.write = "ok" THEN 200 ELSE 400 ]_vars

\* A delete of the reserved endpoint, which is never stored, has been
\* answered 200 with two entries in the table.
C6_Witness ==
  /\ IsUpdate(req, "delete")
  /\ req.data.endpoint = Str(<<"G", "U", "I">>)
  /\ res = Response(200, "OK")
  /\ Len(mappings) = 2

----------------------------------------------------------------------------
(* C7 *)

\* e is a stored endpoint that p equals or that p continues after a '/'
Covers(m, e, p) ==
  /\ e \in Keys(m)
  /\ Len(p) >= Len(e)
  /\ \A j \in 1..Len(e) : p[j] = e[j]
  /\ Len(p) > Len(e) => p[Len(e) + 1] = "/"

Covering(m, p) == { e \in Keys(m) : Covers(m, e, p) }

IsLongest(m, e, p) ==
  /\ e \in Covering(m, p)
  /\ \A e2 \in Covering(m, p) : Len(e2) <= Len(e)

PortOf(m, e, port) == \E i \in 1..Len(m) : m[i].k = e /\ m[i].v = port

RequestPaths == { pathname(r[1]) : r \in ProxyRequests }

RefererHeaders == { r[2] : r \in ProxyRequests }

\* C7: for any table and any request path, if some stored endpoint e has
\* path = e or path starting with e + '/', findEndpoint returns a direct-path
\* match whose endpoint is the longest such e and whose port is the port
\* stored for it; and that is the match every forwarded request was given.
C7_LongestPrefixWins ==
  /\ \A p \in RequestPaths, h \in RefererHeaders :
       Covering(mappings, p) # {} =>
         LET r == findEndpoint(mappings, p, h)
         IN  /\ r.found /\ r.matchedByPath
             /\ IsLongest(mappings, r.endpoint, p)
             /\ PortOf(mappings, r.endpoint, r.port)
  /\ (req.kind = "proxy" /\ Covering(mappings, pathname(req.url)) # {} /\ upstream.sent) =>
       /\ match.found /\ match.matchedByPath
       /\ IsLongest(mappings, match.endpoint, pathname(req.url))
       /\ PortOf(mappings, match.endpoint, match.port)
       /\ upstream.port = match.port

\* '/a' and '/a/a' are both stored, the shorter one first, and a request for
\* '/a/a/x' has gone to the port of '/a/a'.
C7_Witness ==
  /\ req.kind = "proxy"
  /\ req.url = <<"/", "a", "/", "a", "/", "x">>
  /\ Len(mappings) = 2
  /\ mappings[1] = [k |-> <<"/", "a">>, v |-> 1]
  /\ mappings[2] = [k |-> <<"/", "a", "/", "a">>, v |-> 2]
  /\ match.endpoint = <<"/", "a", "/", "a">>
  /\ upstream.sent /\ upstream.port = 2

----------------------------------------------------------------------------
(* C8 *)

Reserved(p) ==
  \/ p = <<"/", "g", "u", "i">>
  \/ Len(p) >= 5 /\ SubSeq(p, 1, 5) = <<"/", "g", "u", "i", "/">>

\* C8: every proxy request whose path is '/gui' or starts with '/gui/' is
\* answered 404 and no backend request is issued, whatever the table holds
\* and whatever the referer is.
C8_ReservedPrefixIs404 ==
  (req.kind = "proxy" /\ Reserved(pathname(req.url))) =>
    /\ res = Response(404, "Not Found")
    /\ ~upstream.sent

\* A request for '/gui/a' with a referer under '/a' has been answered 404
\* although the loaded table stores '/gui', '/gui/a' and '/a'.
C8_Witness ==
  /\ req.kind = "proxy"
  /\ req.url = <<"/", "g", "u", "i", "/", "a">>
  /\ req.referer = <<Origin, "/", "a">>
  /\ {<<"/", "g", "u", "i">>, <<"/", "g", "u", "i", "/", "a">>, <<"/", "a">>}
       \subseteq Keys(mappings)
  /\ res.status = 404

----------------------------------------------------------------------------
(* C9 *)

\* The request target from its first '?' on
RawQuery(url) == SubSeq(url, Len(pathname(url)) + 1, Len(url))

\* C9: for every matched proxy request the forwarded path is, for a
\* direct-path match, the request path without the matched endpoint prefix,
\* '/' when nothing remains, and for a referer-derived match the request path
\* unchanged; it begins with '/', and the query string follows unchanged.
C9_ForwardedPath ==
  (req.kind = "proxy" /\ upstream.sent) =>
    LET path == pathname(req.url)
        rest == SubSeq(path, Len(match.endpoint) + 1, Len(path))
    IN  /\ match.found
        /\ match.matchedByPath =>
             /\ match.endpoint \o rest = path
             /\ upstream.path = IF rest = <<>> THEN <<"/">> ELSE rest
        /\ ~match.matchedByPath => upstream.path = path
        /\ upstream.path # <<>> /\ upstream.path[1] = "/"
        /\ upstream.search = IF RawQuery(req.url) = <<"?">> THEN <<>> ELSE RawQuery(req.url)

\* A request for exactly a stored endpoint, with a query, has been forwarded
\* as '/' with that query.
C9_Witness ==
  /\ req.kind = "proxy"
  /\ req.url = <<"/", "a", "?", "x">>
  /\ upstream.sent
  /\ match.matchedByPath /\ match.endpoint = <<"/", "a">>
  /\ upstream.path = <<"/">>
  /\ upstream.search = <<"?", "x">>

\* A request matched through its referer has been forwarded with its path
\* as it came.
C9_WitnessReferer ==
  /\ req.kind = "proxy"
  /\ upstream.sent
  /\ ~match.matchedByPath
  /\ upstream.path = <<"/", "x", "/", "a">>

----------------------------------------------------------------------------
(* C10 *)

\* The referer is present and is an absolute URL; its path
RefererParses(h) == h # <<>> /\ h[1] = Origin

RefererPath(h) ==
  LET p == upTo(SubSeq(h, 2, Len(h)), {"?", "#"})
  IN  IF p = <<>> THEN <<"/">> ELSE p

RefererCovered(m, h) == RefererParses(h) /\ Covering(m, RefererPath(h)) # {}

\* C10: resolution has two phases in strict order.  A referer-derived match
\* is returned only when no stored endpoint matches the request path and the
\* referer is present, parses, and its path matches a stored endpoint, the
\* longest one; when the request path matches, the result does not depend on
\* the referer; when neither phase matches there is no match and the proxy
\* answers 404.
C10_TwoPhaseResolution ==
  (req.kind = "proxy" /\ ~Reserved(pathname(req.url))) =>
    LET path == pathname(req.url)
    IN  /\ (match.found /\ ~match.matchedByPath) =>
             /\ Covering(mappings, path) = {}
             /\ RefererParses(req.referer)
             /\ IsLongest(mappings, match.endpoint, RefererPath(req.referer))
             /\ PortOf(mappings, match.endpoint, match.port)
        /\ Covering(mappings, path) # {} =>
             /\ match.found /\ match.matchedByPath
             /\ \A h \in RefererHeaders : findEndpoint(mappings, path, h) = match
        /\ (Covering(mappings, path) = {} /\ RefererCovered(mappings, req.referer)) =>
             match.found /\ ~match.matchedByPath
        /\ (Covering(mappings, path) = {} /\ ~RefererCovered(mappings, req.referer)) =>
             /\ ~match.found
             /\ res = Response(404, "Not Found")
             /\ ~upstream.sent

\* A request whose path is a stored endpoint came with a referer under
\* another stored endpoint, and was matched by its path.
C10_Witness ==
  /\ req.kind = "proxy"
  /\ req.url = <<"/", "5">>
  /\ req.referer = <<Origin, "/", "a">>
  /\ {<<"/", "5">>, <<"/", "a">>} \subseteq Keys(mappings)
  /\ match.matchedByPath /\ match.endpoint = <<"/", "5">>

----------------------------------------------------------------------------
(* C11 *)

\* C11: when the backend request of a forwarded proxy request fails before
\* any response came back, the caller is answered 502 with a body naming the
\* port the request resolved to, one backend request was made and no other
\* is made, and neither the table nor the stored document changes.
C11_UnreachableIs502 ==
  [][ (conn.state = "inflight" /\ conn'.state = "failed") =>
        /\ match.found
        /\ res'.status = 502
        /\ conn'.named = match.port
        /\ \E i \in 1..Len(mappings) :
             mappings[i].k = match.endpoint /\ mappings[i].v = conn'.named
        /\ conn.attempts = 1 /\ conn'.attempts = 1
        /\ upstream' = upstream
        /\ mappings' = mappings /\ file' = file ]_vars

\* A request for /5/ resolved to port 65535 and its backend refused the
\* connection.
C11_Witness ==
  /\ req.kind = "proxy"
  /\ match.endpoint = <<"/", "5">>
  /\ conn.state = "failed"
  /\ res.status = 502
  /\ conn.named = 65535
  /\ conn.attempts = 1

----------------------------------------------------------------------------
(* C12 *)

\* C12: when the storage never fails, whenever no update handler is running
\* the stored document reads back as the table in memory, and after an
\* update answered 200 the stored document is exactly the serialization of
\* the table.
C12_StoreEqualsTable ==
  yields(task.pc) =>
    /\ load(file) = mappings
    /\ (req.kind = "update" /\ res.status = 200) =>
         /\ file.exists
         /\ file = saveMappings(mappings)
         /\ JSONparse(file.text) = mappings

\* An entry was deleted from a table of two and the stored document holds
\* the one that is left.
C12_Witness ==
  /\ IsUpdate(req, "delete")
  /\ res.status = 200
  /\ Len(mappings) = 1
  /\ file.exists /\ Len(file.text) = 1
  /\ file.text[1].k = mappings[1].k

----------------------------------------------------------------------------
(* C13 *)

\* The update is an add, delete or rename that passed validation, so that
\* the handler reached saveMappings()
AppliedUpdate(r) ==
  /\ r.kind = "update" /\ r.data.parse = "object"
  /\ r.data.action \in {"add", "delete", "rename"}
  /\ r.write # "none"

\* C13: when the write of the store fails after a valid add, delete or
\* rename was applied, the caller gets a non-200 answer, the table keeps the
\* change, and the stored document is what it was before the request.
C13_FailedWriteKeepsStore ==
  [][ (req.kind = "none" /\ AppliedUpdate(req') /\ req'.write # "ok") =>
        /\ res'.status # 200
        /\ mappings' = update(build, mappings, req'.data).m
        /\ file' = file ]_vars

\* C13 (amended): when the write of the store fails after a valid add, delete
\* or rename was applied, the caller gets a non-200 answer and the table keeps
\* the change; the stored document is what it was before the request when the
\* write failed before the file was opened, and is a truncated document when
\* the write failed after that.
C13_FailedWriteKeepsOrTruncatesStore ==
  [][ (req.kind = "none" /\ AppliedUpdate(req') /\ req'.write # "ok") =>
        /\ res' = Response(400, "Invalid JSON")
        /\ mappings' = update(build, mappings, req'.data).m
        /\ req'.write = "failed" => file' = file
        /\ req'.write = "torn" => file' = Torn /\ file' # saveMappings(mappings')
        /\ file' \in {file, Torn} ]_vars

\* The add of /5 was applied to a table holding /a, the write failed after
\* the file was truncated: the table has both, the stored document neither.
C13_Witness ==
  /\ IsUpdate(req, "add") /\ req.write = "torn"
  /\ res.status = 400
  /\ Keys(mappings) = {<<"/", "a">>, <<"/", "5">>}
  /\ file = Torn

----------------------------------------------------------------------------
(* C14 *)

\* The step starts or ends the handling of a POST /update
UpdateStep ==
  \/ req.kind = "none" /\ req'.kind = "update"
  \/ task.pc = "idle" /\ task'.pc = "renameDelete"

\* C14: every step that is not the work of an update request -- a proxy
\* request answered 404 or forwarded, the backend's response or failure, the
\* caller going away, the start of an admin read, the resolution of a
\* liveness probe, the sending of the listing -- leaves the table and the
\* stored document as they were, whatever is in flight at that moment.
C14_OnlyUpdatesModify ==
  [][ ~UpdateStep => (mappings' = mappings /\ file' = file) ]_vars

\* A listing of two endpoints was sent after its two probes and a proxy
\* request was answered 502, and the table and the stored document are what
\* they were when the read began.
C14_Witness ==
  /\ listing.sent /\ Len(listing.body) = 2
  /\ \E i \in 1..2 : ~listing.body[i].online
  /\ req.kind = "proxy" /\ res.status = 502
  /\ mappings = listing.began
  /\ file = saveMappings(mappings)

----------------------------------------------------------------------------
(* C15 *)

\* The table before the rename in progress, and the table after it
RenameBefore == task.before

RenameAfter == renameAction(build, task.before, task.data).m

\* C15: a proxy resolution or an admin read that takes place once a rename
\* has made its first assignment and before it has made its second sees the
\* table as it was before the rename or as it is after it, never the table
\* in between; and the two assignments together are the rename.
C15_RenameIsAtomic ==
  [][ /\ (task.pc = "renameDelete" /\ seen'.read /\ seen' # seen) =>
           seen'.table \in {RenameBefore, RenameAfter}
      /\ (task.pc = "renameDelete" /\ read'.active /\ ~read.active) =>
           read'.began \in {RenameBefore, RenameAfter}
      /\ (task.pc = "renameDelete" /\ task'.pc = "idle") =>
           mappings' = RenameAfter ]_vars

\* The rename of /a to /5 has made its first assignment, so the table holds
\* both keys, while an admin read begun before it waits for a probe.
C15_Witness ==
  /\ task.pc = "renameDelete"
  /\ Keys(task.before) = {<<"/", "a">>}
  /\ Keys(mappings) = {<<"/", "a">>, <<"/", "5">>}
  /\ mappings \notin {RenameBefore, RenameAfter}
  /\ read.active

----------------------------------------------------------------------------
(* C16 *)

\* The (endpoint, port) pairs of a listing
ListedPairs(body) == { <<body[i].k, body[i].port>> : i \in 1..Len(body) }

\* C16: the endpoints and ports of the listing an admin read sends are those
\* of the table when the read began, one entry for each, whatever updates
\* were handled while the read waited for its probes.
C16_ListingIsSnapshot ==
  listing.sent =>
    /\ ListedPairs(listing.body) = Entries(listing.began)
    /\ Len(listing.body) = Len(listing.began)
    /\ \A i \in 1..Len(listing.body) : listing.body[i].k = listing.began[i].k

\* The read began with /a on port 1 and /5 on port 65535; by the time the
\* listing was sent /5 had been deleted and /a renamed or re-added.
C16_Witness ==
  /\ listing.sent
  /\ Entries(listing.began) = {<<<<"/", "a">>, 1>>, <<<<"/", "5">>, 65535>>}
  /\ Entries(mappings) # Entries(listing.began)
  /\ Len(mappings) = 1
  /\ ListedPairs(listing.body) # Entries(mappings)

----------------------------------------------------------------------------
(* C17 *)

\* Lengths of the tables read
ReadLengths == 0..3

\* C17: every probe resolves, to true when what ended it is a response with
\* a status under 500 and to false when it is a response with a status of
\* 500 or more, a connection error or the timeout; so an admin read gets past
\* each of its probes and its listing is sent.
C17_ProbesResolve ==
  /\ [][ \A i \in 1..Len(read'.result) :
           LET r == read'.result[i]
           IN  /\ r.online \in BOOLEAN
               /\ r.online <=> (r.event.type = "response" /\ r.event.status < 500)
               /\ r.event.type \in {"error", "timeout"} => ~r.online ]_vars
  /\ [](listing.sent =>
          \A i \in 1..Len(listing.body) :
            LET r == listing.body[i]
            IN  r.online <=> (r.event.type = "response" /\ r.event.status < 500))
  /\ \A n \in ReadLengths :
       (read.active /\ read.i = n) ~> (~read.active \/ read.i > n)
  /\ read.active ~> listing.sent

\* The listing of a table of three was sent: one probe was answered 404, one
\* answered 500, one timed out.
C17_Witness ==
  /\ listing.sent /\ Len(listing.body) = 3
  /\ listing.body[1].event = [type |-> "response", status |-> 404]
  /\ listing.body[1].online
  /\ listing.body[2].event = [type |-> "response", status |-> 500]
  /\ ~listing.body[2].online
  /\ listing.body[3].event.type = "timeout"
  /\ ~listing.body[3].online

----------------------------------------------------------------------------
(* C18 *)

\* C18: once the caller of a forwarded request has gone away while the
\* backend had not answered, the backend request does not go on to its
\* response: it is aborted.
C18_AbortedOnDisconnect ==
  conn.client = "gone" => conn.state \in {"inflight", "aborted", "failed"}

----------------------------------------------------------------------------
(* C19 *)

\* C19: for a proxy request the handler calls res.writeHead at most once,
\* whatever the backend does: a connection error that follows the backend's
\* response head does not make it write the 502 head.
C19_HeadWrittenOnce ==
  /\ conn.heads <= 1
  /\ conn.state # "crashed"

----------------------------------------------------------------------------
(* C20 *)

RECURSIVE Reverse(_)
Reverse(s) == IF s = <<>> THEN <<>> ELSE Reverse(Tail(s)) \o <<Head(s)>>

\* The stored endpoints the direct-path test of findEndpoint accepts for p
DirectMatches(m, p) == { e \in Keys(m) : matches(p, e) }

\* C20: in a table built from the empty one by update requests, at most one
\* stored endpoint matches a request path directly, so the scan finds the
\* same endpoint in whatever order it goes through the keys.
C20_OneDirectMatch ==
  \A p \in RequestPaths \cup Keys(mappings) :
    /\ Cardinality(DirectMatches(mappings, p)) <= 1
    /\ DirectMatches(mappings, p) = Covering(mappings, p)
    /\ scan(keys(mappings), p) = scan(sortByLength(keys(mappings)), p)
    /\ scan(Reverse(keys(mappings)), p) = scan(sortByLength(keys(mappings)), p)

\* The table holds /a and /5, and a request for /a/x was matched by its
\* path to /a.
C20_Witness ==
  /\ Keys(mappings) = {<<"/", "a">>, <<"/", "5">>}
  /\ req.kind = "proxy" /\ pathname(req.url) = <<"/", "a", "/", "x">>
  /\ match.found /\ match.matchedByPath
  /\ match.endpoint = <<"/", "a">>
  /\ DirectMatches(mappings, pathname(req.url)) = {<<"/", "a">>}

====
